---- MODULE Spec2Model ----
(***************************************************************************)
(* A model of the link helpers (core/models/links.py), the Elasticsearch   *)
(* client configuration (elasticsearch/config.py) and the application      *)
(* start-up (elasticsearch/app.py) of stac-fastapi-elasticsearch.          *)
(*                                                                         *)
(* Text.  A Python str is a sequence of tokens.  The URL delimiters        *)
(* "/" "?" "#" "&" "=" ":" and the characters " " "+" and the percent      *)
(* escapes "%20" "%2B" "%2F" "%3A" "%3D" "%3F" "%26" "%23" are tokens of   *)
(* their own; every other token is a word: a non-empty run of letters,     *)
(* digits and dots that holds none of the former ("http", "search", "..",  *)
(* "8080").  In the URLs of the model no word other than the host itself   *)
(* ends with the text of the host and is followed by "/", which makes      *)
(* str.split on tokens agree with str.split on characters.  The text ""    *)
(* is << >>.                                                               *)
(***************************************************************************)
EXTENDS Integers, Sequences, FiniteSets, TLC

VARIABLES
    obj,        \* the links object under use (BaseLinks and its subclasses)
    called,     \* the method of obj that ran last, "none" before any call
    ret,        \* what that call returned
    suspended,  \* the coroutines waiting at `await request.json()`, in the
                \* order of their calls
    stored_links, \* the links stored with the resource: what the handler
                \* passes to get_links as extra_links
    environ,    \* os.environ: variable name -> text, or Unset
    config,     \* what the last call of _es_config returned
    app         \* the application module: import and start-up progress

vars == <<obj, called, ret, suspended, stored_links, environ, config, app>>

----------------------------------------------------------------------------
(* Python values that are not text.  An Optional[str] is None or Str(text),
   an Optional[list] is None or List(list). *)

None == [none |-> TRUE]

Str(text) == [str |-> text]

List(items) == [list |-> items]

Min(S) == CHOOSE x \in S : \A y \in S : x <= y

Last(s) == s[Len(s)]

(* All sequences over S of length at most n. *)
SeqsUpTo(S, n) == UNION {[1..k -> S] : k \in 0..n}

----------------------------------------------------------------------------
(* str methods on token sequences.                                         *)

(* s.find(t): index of the first token t of s, 0 when there is none. *)
Find(s, t) ==
    LET at == {i \in 1..Len(s) : s[i] = t}
    IN  IF at = {} THEN 0 ELSE Min(at)

(* Index of the first token of s that is in T, 0 when there is none. *)
FindAny(s, T) ==
    LET at == {i \in 1..Len(s) : s[i] \in T}
    IN  IF at = {} THEN 0 ELSE Min(at)

(* Index of the first occurrence of the text sep in s, 0 when none. *)
IndexOf(s, sep) ==
    LET at == {i \in 1..(Len(s) - Len(sep) + 1) :
                  SubSeq(s, i, i + Len(sep) - 1) = sep}
    IN  IF at = {} THEN 0 ELSE Min(at)

(* s.split(sep), sep a non-empty text: the list of the pieces. *)
RECURSIVE Split(_, _)
Split(s, sep) ==
    LET i == IndexOf(s, sep)
    IN  IF i = 0
        THEN <<s>>
        ELSE <<SubSeq(s, 1, i - 1)>>
                 \o Split(SubSeq(s, i + Len(sep), Len(s)), sep)

(* s.split(sep, 1): at most two pieces. *)
Split1(s, sep) ==
    LET i == IndexOf(s, sep)
    IN  IF i = 0
        THEN <<s>>
        ELSE <<SubSeq(s, 1, i - 1), SubSeq(s, i + Len(sep), Len(s))>>

(* sep.join(parts). *)
RECURSIVE Join(_, _)
Join(parts, sep) ==
    IF parts = << >> THEN << >>
    ELSE IF Len(parts) = 1 THEN parts[1]
    ELSE parts[1] \o sep \o Join(Tail(parts), sep)

(* filter(None, parts): the non-empty texts of a list. *)
NonEmpty(parts) == SelectSeq(parts, LAMBDA p : p # << >>)

----------------------------------------------------------------------------
(* urllib.parse.                                                           *)

(* Words that begin with a letter: the ones a URL scheme may begin with. *)
AlphaWords ==
    {"http", "https", "h", "o", "api", "search", "catalogs", "collections",
     "a", "b", "c", "x", "y", "n", "t", "q", "u", "limit", "token", "old",
     "lic", "flag", "conformance", "items", "queryables", "aggregate",
     "aggregations"}

(* scheme_chars: letters, digits and "+-.". *)
IsSchemeToken(t) == t \in AlphaWords \cup {"..", ".", "1", "8080", "+"}

uses_relative == {<< >>, <<"http">>, <<"https">>}
uses_netloc == {<< >>, <<"http">>, <<"https">>}

(* s cut at index i: the text before it and the text after it; i = 0 (not
   found) leaves s whole and gives "" after it. *)
Before(s, i) == IF i = 0 THEN s ELSE SubSeq(s, 1, i - 1)
After(s, i) == IF i = 0 THEN << >> ELSE SubSeq(s, i + 1, Len(s))

(* urlsplit, the scheme: the text before the first ":" when it begins with
   a letter and holds scheme characters only. *)
TakeScheme(url, scheme, i) ==
    IF /\ i > 1
       /\ url[1] \in AlphaWords
       /\ \A k \in 1..(i - 1) : IsSchemeToken(url[k])
    THEN [scheme |-> SubSeq(url, 1, i - 1), rest |-> After(url, i)]
    ELSE [scheme |-> scheme, rest |-> url]

(* urlsplit, the netloc: after a leading "//", up to the next "/", "?" or
   "#" (_splitnetloc). *)
SplitNetloc(r, e) ==
    [netloc |-> Before(r, e),
     rest |-> IF e = 0 THEN << >> ELSE SubSeq(r, e, Len(r))]

TakeNetloc(p) ==
    IF Len(p.rest) >= 2 /\ p.rest[1] = "/" /\ p.rest[2] = "/"
    THEN [scheme |-> p.scheme]
           @@ SplitNetloc(SubSeq(p.rest, 3, Len(p.rest)),
                          FindAny(SubSeq(p.rest, 3, Len(p.rest)),
                                  {"/", "?", "#"}))
    ELSE [scheme |-> p.scheme, netloc |-> << >>, rest |-> p.rest]

(* urlsplit, the fragment and then the query. *)
TakeFragment(p, f) ==
    [scheme |-> p.scheme, netloc |-> p.netloc, rest |-> Before(p.rest, f),
     fragment |-> After(p.rest, f)]

TakeQuery(p, q) ==
    [scheme |-> p.scheme, netloc |-> p.netloc, path |-> Before(p.rest, q),
     query |-> After(p.rest, q), fragment |-> p.fragment]

UrlsplitFragment(p) == TakeFragment(p, Find(p.rest, "#"))

UrlsplitQuery(p) == TakeQuery(p, Find(p.rest, "?"))

(* urlsplit(url, scheme): scheme, netloc, path, query, fragment. *)
urlsplit(url, scheme) ==
    UrlsplitQuery(UrlsplitFragment(TakeNetloc(
        TakeScheme(url, scheme, Find(url, ":")))))

(* urlparse: urlsplit plus the ";params" of the last path segment; no text
   of the model holds ";", so params is always "" and is left out. *)
urlparse(url, scheme) == urlsplit(url, scheme)

(* urlunsplit, and ParseResult.geturl with empty params. *)
WithNetloc(p) ==
    IF p.netloc # << >>
         \/ (/\ p.scheme # << >>
             /\ p.scheme \in uses_netloc
             /\ ~(Len(p.path) >= 2 /\ p.path[1] = "/" /\ p.path[2] = "/"))
    THEN <<"/", "/">> \o p.netloc
           \o (IF p.path # << >> /\ p.path[1] # "/" THEN <<"/">> ELSE << >>)
           \o p.path
    ELSE p.path

urlunsplit(p) ==
    (IF p.scheme # << >> THEN p.scheme \o <<":">> ELSE << >>)
      \o WithNetloc(p)
      \o (IF p.query # << >> THEN <<"?">> \o p.query ELSE << >>)
      \o (IF p.fragment # << >> THEN <<"#">> \o p.fragment ELSE << >>)

(* The dot-segment loop of urljoin over the list of segments. *)
RECURSIVE RemoveDots(_, _)
RemoveDots(segments, resolved) ==
    IF segments = << >> THEN resolved
    ELSE LET seg == Head(segments)
         IN  IF seg = <<"..">>
             THEN RemoveDots(Tail(segments),
                             IF resolved = << >> THEN resolved
                             ELSE SubSeq(resolved, 1, Len(resolved) - 1))
             ELSE IF seg = <<".">>
             THEN RemoveDots(Tail(segments), resolved)
             ELSE RemoveDots(Tail(segments), Append(resolved, seg))

(* segments[1:-1] = filter(None, segments[1:-1]) *)
FilterInner(segments) ==
    IF Len(segments) <= 2 THEN segments
    ELSE <<segments[1]>>
           \o NonEmpty(SubSeq(segments, 2, Len(segments) - 1))
           \o <<Last(segments)>>

(* base_parts: the segments of the base path without its last one when
   that is no directory. *)
BaseParts(bp) == IF Last(bp) # << >> THEN SubSeq(bp, 1, Len(bp) - 1) ELSE bp

(* The segments to resolve: those of an absolute path, else the base parts
   and those of the relative path. *)
Segments(bpath, path) ==
    IF path[1] = "/" THEN Split(path, <<"/">>)
    ELSE FilterInner(BaseParts(Split(bpath, <<"/">>))
                       \o Split(path, <<"/">>))

(* '/'.join(resolved_path) or '/', with the trailing "" after a last dot
   segment. *)
ResolvedPath(segments) ==
    Join(RemoveDots(segments, << >>)
           \o (IF Last(segments) \in {<<".">>, <<"..">>}
               THEN << << >> >> ELSE << >>),
         <<"/">>)

OrSlash(path) == IF path = << >> THEN <<"/">> ELSE path

(* urljoin once both are parsed: b the base, r the reference. *)
JoinParsed(b, r, url) ==
    IF r.scheme # b.scheme \/ r.scheme \notin uses_relative THEN url
    ELSE IF r.scheme \in uses_netloc /\ r.netloc # << >>
    THEN urlunsplit(r)
    ELSE IF r.path = << >>
    THEN urlunsplit([scheme |-> r.scheme, netloc |-> b.netloc,
                     path |-> b.path,
                     query |-> IF r.query = << >> THEN b.query ELSE r.query,
                     fragment |-> r.fragment])
    ELSE urlunsplit([scheme |-> r.scheme, netloc |-> b.netloc,
                     path |-> OrSlash(ResolvedPath(Segments(b.path, r.path))),
                     query |-> r.query, fragment |-> r.fragment])

JoinBase(b, url) == JoinParsed(b, urlparse(url, b.scheme), url)

urljoin(base, url) ==
    IF base = << >> THEN url
    ELSE IF url = << >> THEN base
    ELSE JoinBase(urlparse(base, << >>), url)

----------------------------------------------------------------------------
(* unquote after replace('+', ' '), token by token: what parse_qsl does to a
   name and to a value. *)
UnquoteToken(t) ==
    CASE t = "+"   -> " "
      [] t = "%20" -> " "
      [] t = "%2B" -> "+"
      [] t = "%2F" -> "/"
      [] t = "%3A" -> ":"
      [] t = "%3D" -> "="
      [] t = "%3F" -> "?"
      [] t = "%26" -> "&"
      [] t = "%23" -> "#"
      [] OTHER     -> t

unquote_plus(s) == [i \in 1..Len(s) |-> UnquoteToken(s[i])]

(* quote_plus, token by token: letters, digits and "_.-~" are kept. *)
QuoteToken(t) ==
    CASE t = " "   -> "+"
      [] t = "+"   -> "%2B"
      [] t = "/"   -> "%2F"
      [] t = ":"   -> "%3A"
      [] t = "="   -> "%3D"
      [] t = "?"   -> "%3F"
      [] t = "&"   -> "%26"
      [] t = "#"   -> "%23"
      [] OTHER     -> t

quote_plus(s) == [i \in 1..Len(s) |-> QuoteToken(s[i])]

(* parse_qsl(qs), keep_blank_values false: the list of (name, value). *)
RECURSIVE ParseArgs(_)
ParseArgs(query_args) ==
    IF query_args = << >> THEN << >>
    ELSE LET nv == Split1(Head(query_args), <<"=">>)
             rest == ParseArgs(Tail(query_args))
         IN  IF Head(query_args) = << >> THEN rest
             ELSE IF Len(nv) # 2 THEN rest
             ELSE IF Len(nv[2]) > 0
             THEN <<[name |-> unquote_plus(nv[1]),
                     value |-> unquote_plus(nv[2])]>> \o rest
             ELSE rest

parse_qsl(qs) ==
    ParseArgs(IF qs # << >> THEN Split(qs, <<"&">>) ELSE << >>)

(* A dict with text keys, in insertion order: a list of entries
   [name, values, scalar]; scalar says the value is a str and not a list. *)
DictKeys(d) == {d[i].name : i \in 1..Len(d)}

DictIndex(d, k) == Min({i \in 1..Len(d) : d[i].name = k})

(* parse_qs: the values of each name, as a list, names in first-seen order. *)
RECURSIVE GroupPairs(_, _)
GroupPairs(pairs, d) ==
    IF pairs = << >> THEN d
    ELSE LET p == Head(pairs)
         IN  IF p.name \in DictKeys(d)
             THEN LET i == DictIndex(d, p.name)
                  IN  GroupPairs(Tail(pairs),
                        [d EXCEPT ![i].values = Append(@, p.value)])
             ELSE GroupPairs(Tail(pairs),
                        Append(d, [name |-> p.name, values |-> <<p.value>>,
                                   scalar |-> FALSE]))

parse_qs(qs) == GroupPairs(parse_qsl(qs), << >>)

(* params.update({k: v}) with v a str. *)
DictUpdate(d, k, v) ==
    LET e == [name |-> k, values |-> <<v>>, scalar |-> TRUE]
    IN  IF k \in DictKeys(d)
        THEN [d EXCEPT ![DictIndex(d, k)] = e]
        ELSE Append(d, e)

(* urlencode(params, True): one name=value per str value and per element of
   a list value, joined by "&". *)
RECURSIVE EncodeValues(_, _)
EncodeValues(k, vs) ==
    IF vs = << >> THEN << >>
    ELSE <<quote_plus(k) \o <<"=">> \o quote_plus(Head(vs))>>
             \o EncodeValues(k, Tail(vs))

RECURSIVE EncodeDict(_)
EncodeDict(d) ==
    IF d = << >> THEN << >>
    ELSE EncodeValues(Head(d).name, Head(d).values) \o EncodeDict(Tail(d))

urlencode(d) == Join(EncodeDict(d), <<"&">>)

----------------------------------------------------------------------------
(* core/models/links.py                                                    *)

INFERRED_LINK_RELS == {"self", "item", "parent", "collection", "root"}

token_key == <<"token">>

(* Only the "token" key is ever merged in; newparams is its str value. *)
MergeParsed(u, newparams) ==
    urlunsplit([scheme |-> u.scheme, netloc |-> u.netloc, path |-> u.path,
                query |-> urlencode(DictUpdate(parse_qs(u.query), token_key,
                                               newparams)),
                fragment |-> u.fragment])

(* merge_params adding token=... to the query string as it stands. *)
merge_params_appended(url, newparams) ==
    url \o (IF Find(url, "?") = 0 THEN <<"?">> ELSE <<"&">>)
        \o <<"token", "=">> \o quote_plus(newparams)

merge_params(url, newparams) == MergeParsed(urlparse(url, << >>), newparams)

json_type == "application/json"
geojson_type == "application/geo+json"

(* starlette's Request as the link helpers read it: method, str(base_url),
   str(url) and the parsed JSON body.  base_url is the root_path of the ASGI
   scope with a trailing "/"; url is the path of the scope and the query
   string, whether or not that path begins with the root_path.  json is the
   body that `await request.json()` gives; body_read says the body was read
   before, so that the await gives it without suspending. *)
Request(method, scheme, netloc, root_path, path, query, body, body_read) ==
    [method    |-> method,
     base_url  |-> scheme \o <<":", "/", "/">> \o netloc \o root_path
                     \o <<"/">>,
     url       |-> scheme \o <<":", "/", "/">> \o netloc \o path
                     \o (IF query = << >> THEN << >> ELSE <<"?">> \o query),
     json      |-> body,
     body_read |-> body_read,
     postbody  |-> None]

base_url(o) == o.request.base_url

url(o) == o.request.url

resolve(o, u) == urljoin(base_url(o), u)

BaseLinks_link_self(o) ==
    [rel |-> "self", type |-> json_type, href |-> base_url(o)]

link_root(o) ==
    [rel |-> "root", type |-> json_type, href |-> base_url(o)]

(* Literal pieces of the hrefs. *)
catalogs_s == <<"catalogs", "/">>

(* class CollectionLinks(BaseLinks): catalog_path, collection_id, extensions *)

CollectionLinks_link_self(o) ==
    [rel |-> "self", type |-> json_type,
     href |-> urljoin(base_url(o),
                catalogs_s \o o.catalog_path \o <<"/", "collections", "/">>
                  \o o.collection_id)]

CollectionLinks_link_parent(o) ==
    LET href_url == IF o.catalog_path = << >> THEN << >>
                    ELSE catalogs_s \o o.catalog_path
    IN  [rel |-> "parent", type |-> json_type,
         href |-> urljoin(base_url(o), href_url)]

(* The prefix link_items, link_queryables, link_aggregate and
   link_aggregations of CollectionLinks each compute. *)
CollectionLinks_href_url(o) ==
    IF o.catalog_path = << >> THEN << >>
    ELSE catalogs_s \o o.catalog_path \o <<"/">>

CollectionLinks_link_items(o) ==
    [rel |-> "items", type |-> geojson_type,
     href |-> urljoin(base_url(o),
                CollectionLinks_href_url(o) \o <<"collections", "/">>
                  \o o.collection_id \o <<"/", "items">>)]

(* link_queryables testing for the extension link_aggregate tests for. *)
CollectionLinks_link_queryables_agg(o) ==
    IF \E i \in 1..Len(o.extensions) : o.extensions[i] = "AggregationExtension"
    THEN [rel |-> "queryables", type |-> json_type,
          href |-> urljoin(base_url(o),
                     CollectionLinks_href_url(o) \o <<"collections", "/">>
                       \o o.collection_id \o <<"/", "queryables">>)]
    ELSE None

CollectionLinks_link_queryables(o) ==
    IF \E i \in 1..Len(o.extensions) : o.extensions[i] = "FilterExtension"
    THEN [rel |-> "queryables", type |-> json_type,
          href |-> urljoin(base_url(o),
                     CollectionLinks_href_url(o) \o <<"collections", "/">>
                       \o o.collection_id \o <<"/", "queryables">>)]
    ELSE None

CollectionLinks_link_aggregate(o) ==
    IF \E i \in 1..Len(o.extensions) : o.extensions[i] = "AggregationExtension"
    THEN [rel |-> "aggregate", type |-> json_type,
          href |-> urljoin(base_url(o),
                     CollectionLinks_href_url(o) \o <<"collections", "/">>
                       \o o.collection_id \o <<"/", "aggregate">>)]
    ELSE None

CollectionLinks_link_aggregations(o) ==
    IF \E i \in 1..Len(o.extensions) : o.extensions[i] = "AggregationExtension"
    THEN [rel |-> "aggregations", type |-> json_type,
          href |-> urljoin(base_url(o),
                     CollectionLinks_href_url(o) \o <<"collections", "/">>
                       \o o.collection_id \o <<"/", "aggregations">>)]
    ELSE None

(* class CatalogLinks(BaseLinks): catalog_path, catalog_id, extensions *)

(* The href_url every CatalogLinks method but link_parent and
   link_conformance computes. *)
CatalogLinks_href_url(o) ==
    IF o.catalog_path = << >>
    THEN catalogs_s \o o.catalog_id
    ELSE catalogs_s \o o.catalog_path \o <<"/", "catalogs", "/">>
           \o o.catalog_id

CatalogLinks_link_self(o) ==
    [rel |-> "self", type |-> json_type,
     href |-> urljoin(base_url(o), CatalogLinks_href_url(o))]

CatalogLinks_link_parent(o) ==
    LET href_url == IF o.catalog_path = << >> THEN << >>
                    ELSE catalogs_s \o o.catalog_path
    IN  [rel |-> "parent", type |-> json_type,
         href |-> urljoin(base_url(o), href_url)]

CatalogLinks_link_collections(o) ==
    [rel |-> "collections", type |-> geojson_type,
     href |-> urljoin(base_url(o),
                CatalogLinks_href_url(o) \o <<"/", "collections">>)]

CatalogLinks_link_data(o) ==
    [rel |-> "data", type |-> geojson_type,
     href |-> urljoin(base_url(o),
                CatalogLinks_href_url(o) \o <<"/", "collections">>)]

CatalogLinks_link_catalogs(o) ==
    [rel |-> "catalogs", type |-> geojson_type,
     href |-> urljoin(base_url(o),
                CatalogLinks_href_url(o) \o <<"/", "catalogs">>)]

CatalogLinks_link_aggregate(o) ==
    IF \E i \in 1..Len(o.extensions) : o.extensions[i] = "AggregationExtension"
    THEN [rel |-> "aggregate", type |-> json_type,
          href |-> urljoin(base_url(o),
                     CatalogLinks_href_url(o) \o <<"/", "aggregate">>)]
    ELSE None

CatalogLinks_link_aggregations(o) ==
    IF \E i \in 1..Len(o.extensions) : o.extensions[i] = "AggregationExtension"
    THEN [rel |-> "aggregations", type |-> json_type,
          href |-> urljoin(base_url(o),
                     CatalogLinks_href_url(o) \o <<"/", "aggregations">>)]
    ELSE None

CatalogLinks_link_queryables(o) ==
    IF \E i \in 1..Len(o.extensions) : o.extensions[i] = "FilterExtension"
    THEN [rel |-> "queryables", type |-> json_type,
          href |-> urljoin(base_url(o),
                     CatalogLinks_href_url(o) \o <<"/", "queryables">>)]
    ELSE None

CatalogLinks_link_conformance(o) ==
    [rel |-> "conformance", type |-> json_type,
     title |-> "STAC/WFS3 conformance classes implemented by this server",
     href |-> urljoin(base_url(o), <<"conformance">>)]

CatalogLinks_link_get_search(o) ==
    [rel |-> "search", type |-> geojson_type, title |-> "STAC search",
     href |-> urljoin(base_url(o),
                CatalogLinks_href_url(o) \o <<"/", "search">>),
     method |-> "GET"]

CatalogLinks_link_post_search(o) ==
    [rel |-> "search", type |-> geojson_type, title |-> "STAC search",
     href |-> urljoin(base_url(o),
                CatalogLinks_href_url(o) \o <<"/", "search">>),
     method |-> "POST"]

(* class PagingLinks(BaseLinks): next *)

(* {**postbody, "token": self.next}: a dict is the list of its entries
   [name, value] in insertion order. *)
WithToken(postbody, next) ==
    LET e == [name |-> "token", value |-> next]
    IN  IF "token" \in DictKeys(postbody)
        THEN [postbody EXCEPT ![DictIndex(postbody, "token")] = e]
        ELSE Append(postbody, e)

(* query_url and new_url of link_next: the request url split at the netloc
   and "/", the second piece resolved against base_url. *)
UrlPieces(u) == Split(u, urlparse(u, << >>).netloc \o <<"/">>)

(* The dict the POST branch returns, from new_url and the method read before
   `await self.request.json()` and the body and next read after it. *)
PostLink(method, new_url, postbody, next) ==
    [rel |-> "next", type |-> json_type, method |-> method,
     href |-> new_url,
     body |-> WithToken(postbody, next.str)]

NextLink(o, method, pieces) ==
    IF Len(pieces) < 2 THEN [raised |-> "IndexError"]
    ELSE IF method = "GET"
    THEN [rel |-> "next", type |-> json_type, method |-> method,
          href |-> merge_params(resolve(o, pieces[2]), o.next.str)]
    ELSE PostLink(method, resolve(o, pieces[2]), o.request.json, o.next)

(* The body of the coroutine link_next run from its call to its return: what
   awaiting it gives when nothing else runs in between.  The [1] of
   url.split(netloc)[1] raises IndexError when there is one piece only. *)
link_next(o) ==
    IF o.next # None /\ o.request.method \in {"GET", "POST"}
    THEN NextLink(o, o.request.method, UrlPieces(url(o)))
    ELSE None

(* Calling an `async def` gives a coroutine object; nothing of its body has
   run until it is awaited. *)
Coroutine(name) == [coroutine |-> name]

(* dir(self), kept to the names that start with "link_" and are callable:
   sorted by name. *)
LinkMethods(o) ==
    CASE o.cls = "BaseLinks" -> <<"link_root", "link_self">>
      [] o.cls = "CollectionLinks" ->
            <<"link_aggregate", "link_aggregations", "link_items",
              "link_parent", "link_queryables", "link_root", "link_self">>
      [] o.cls = "CatalogLinks" ->
            <<"link_aggregate", "link_aggregations", "link_catalogs",
              "link_collections", "link_conformance", "link_data",
              "link_get_search", "link_parent", "link_post_search",
              "link_queryables", "link_root", "link_self">>
      [] o.cls = "PagingLinks" -> <<"link_next", "link_root", "link_self">>

(* getattr(self, name)(): the method the class of o binds to name. *)
CallLink(o, name) ==
    IF name = "link_root" THEN link_root(o)
    ELSE IF name = "link_next" THEN Coroutine("link_next")
    ELSE IF o.cls = "CollectionLinks"
    THEN CASE name = "link_self" -> CollectionLinks_link_self(o)
           [] name = "link_parent" -> CollectionLinks_link_parent(o)
           [] name = "link_items" -> CollectionLinks_link_items(o)
           [] name = "link_queryables" -> CollectionLinks_link_queryables(o)
           [] name = "link_aggregate" -> CollectionLinks_link_aggregate(o)
           [] name = "link_aggregations" ->
                  CollectionLinks_link_aggregations(o)
    ELSE IF o.cls = "CatalogLinks"
    THEN CASE name = "link_self" -> CatalogLinks_link_self(o)
           [] name = "link_parent" -> CatalogLinks_link_parent(o)
           [] name = "link_collections" -> CatalogLinks_link_collections(o)
           [] name = "link_data" -> CatalogLinks_link_data(o)
           [] name = "link_catalogs" -> CatalogLinks_link_catalogs(o)
           [] name = "link_aggregate" -> CatalogLinks_link_aggregate(o)
           [] name = "link_aggregations" -> CatalogLinks_link_aggregations(o)
           [] name = "link_queryables" -> CatalogLinks_link_queryables(o)
           [] name = "link_conformance" -> CatalogLinks_link_conformance(o)
           [] name = "link_get_search" -> CatalogLinks_link_get_search(o)
           [] name = "link_post_search" -> CatalogLinks_link_post_search(o)
    ELSE BaseLinks_link_self(o)

(* The loop of create_links over the names. *)
RECURSIVE CollectLinks(_, _)
CollectLinks(o, names) ==
    IF names = << >> THEN << >>
    ELSE LET link == CallLink(o, Head(names))
         IN  (IF link # None THEN <<link>> ELSE << >>)
                \o CollectLinks(o, Tail(names))

create_links(o) == CollectLinks(o, LinkMethods(o))

(* ResolveExtra without the test of the rel: every extra link is kept. *)
RECURSIVE ResolveExtra_unfiltered(_, _)
ResolveExtra_unfiltered(o, extra_links) ==
    IF extra_links = << >> THEN << >>
    ELSE <<[Head(extra_links) EXCEPT
               !.href = resolve(o, Head(extra_links).href)]>>
           \o ResolveExtra_unfiltered(o, Tail(extra_links))

(* The list comprehension of get_links over extra_links. *)
RECURSIVE ResolveExtra(_, _)
ResolveExtra(o, extra_links) ==
    IF extra_links = << >> THEN << >>
    ELSE LET link == Head(extra_links)
         IN  (IF link.rel \notin INFERRED_LINK_RELS
              THEN <<[link EXCEPT !.href = resolve(o, link.href)]>>
              ELSE << >>)
                \o ResolveExtra(o, Tail(extra_links))

(* get_links(extra_links): the list returned; extra_links is None or
   List(links), and `if extra_links` is false of None and of []. *)
get_links(o, extra_links) ==
    create_links(o)
      \o (IF extra_links # None /\ extra_links.list # << >>
          THEN ResolveExtra(o, extra_links.list) ELSE << >>)

(* The inputs of the link helpers.                                         *)

MaxDepth == 1    \* catalogs nested in catalog_path
MaxExt == 2      \* length of the extensions list
MaxExtra == 2    \* length of extra_links
MaxQuery == 2    \* arguments in the query string of the request
MaxPending == 2  \* coroutines waiting for the body of the request at a time

http == <<"http">>
host == <<"h">>
api_root == <<"/", "api">>
search_path == <<"/", "search">>

(* root_path and path of the ASGI scope: no root path; a root path that the
   server left in the path; a root path that a proxy removed from the path
   and app.root_path gives back. *)
Scopes ==
    {[root_path |-> << >>, path |-> search_path],
     [root_path |-> api_root, path |-> api_root \o search_path],
     [root_path |-> api_root, path |-> search_path]}

(* Identifiers as they are stored: ".." is a dot segment to urljoin. *)
IdPool == {<<"a">>, <<"c">>, <<"..">>}

(* catalog_path: "" at the top, else ids joined by "/catalogs/". *)
RECURSIVE CatalogPaths(_)
CatalogPaths(depth) ==
    IF depth = 0 THEN {<< >>}
    ELSE CatalogPaths(depth - 1)
           \cup IdPool
           \cup {p \o <<"/", "catalogs", "/">> \o i :
                   p \in CatalogPaths(depth - 1) \ {<< >>}, i \in IdPool}

ExtensionNames == {"FilterExtension", "AggregationExtension"}
ExtensionLists == SeqsUpTo(ExtensionNames, MaxExt)

(* JSON bodies of a POST: dicts as lists of entries. *)
Bodies ==
    {<< >>,
     <<[name |-> "limit", value |-> <<"1">>]>>,
     <<[name |-> "token", value |-> <<"old">>],
       [name |-> "limit", value |-> <<"1">>]>>}

(* Requests without a query string. *)
PlainRequests ==
    {Request("GET", http, host, s.root_path, s.path, << >>, << >>, FALSE) :
        s \in Scopes}
      \cup {Request("POST", http, host, s.root_path, s.path, << >>,
                     <<[name |-> "limit", value |-> <<"1">>]>>, read) :
              s \in Scopes, read \in BOOLEAN}

(* Query arguments: plain, a token of an earlier page, a blank value, a value
   with an escaped and with a "+" space, a value holding the host and "/",
   and a name without "=". *)
QueryArgs ==
    {<<"limit", "=", "1">>,
     <<"token", "=", "old">>,
     <<"a", "=">>,
     <<"q", "=", "x", "%20", "y">>,
     <<"q", "=", "x", "+", "y">>,
     <<"u", "=", "h", "/", "x">>}

Queries == {Join(l, <<"&">>) : l \in SeqsUpTo(QueryArgs, MaxQuery)}

PagingRequests ==
    {Request(m, http, host, s.root_path, s.path, q, << >>, FALSE) :
        m \in {"GET", "PUT"}, s \in Scopes, q \in Queries}
      \cup {Request("POST", http, host, s.root_path, s.path, q, b, read) :
              s \in Scopes, q \in Queries, b \in Bodies,
              read \in BOOLEAN}

(* next: None, or a token; "n t" needs quoting, "" is a str all the same. *)
NextTokens == {None, Str(<<"n">>), Str(<<"n", " ", "t">>), Str(<< >>)}

BaseObjects == {[cls |-> "BaseLinks", request |-> r] : r \in PlainRequests}

CollectionObjects ==
    {[cls |-> "CollectionLinks", request |-> r, catalog_path |-> p,
      collection_id |-> i, extensions |-> e] :
        r \in PlainRequests, p \in CatalogPaths(MaxDepth), i \in IdPool,
        e \in ExtensionLists}

CatalogObjects ==
    {[cls |-> "CatalogLinks", request |-> r, catalog_path |-> p,
      catalog_id |-> i, extensions |-> e] :
        r \in PlainRequests, p \in CatalogPaths(MaxDepth), i \in IdPool,
        e \in ExtensionLists}

PagingObjects(requests) ==
    {[cls |-> "PagingLinks", request |-> r, next |-> n] :
        r \in requests, n \in NextTokens}

(* Links as they are stored with a resource: a server-inferred rel, a
   relative href with a title, an absolute href. *)
ExtraLinkPool ==
    {[rel |-> "self", href |-> <<"x">>],
     [rel |-> "license", href |-> <<"..", "/", "lic">>, title |-> "t"],
     [rel |-> "via", href |-> <<"http", ":", "/", "/", "o", "/", "x">>]}

ExtraLinks == {None} \cup {List(l) : l \in SeqsUpTo(ExtraLinkPool, MaxExtra)}

----------------------------------------------------------------------------
(* The calls on a links object.                                            *)

(* The body of a request is one message of the receive channel, handed to
   the receive() that was called first.  A coroutine that still waits when
   the body has gone to another one gets the next message, the disconnect,
   and `await self.request.json()` raises ClientDisconnect in it. *)
ClientDisconnect == [raised |-> "ClientDisconnect"]

(* The coroutine whose receive() is served next, and what it is served. *)
NextServed(name) == suspended # << >> /\ Head(suspended).coroutine = name

(* Whether `await self.request.json()` gives the body at once: it does when
   the body was read before; else the coroutine waits for the body and other
   callbacks run until it is resumed. *)
BodyAtHand(o) == o.request.body_read

(* self.request.postbody = await self.request.json(), the body delivered. *)
WithPostbody(o) ==
    [o EXCEPT !.request.postbody = List(o.request.json),
              !.request.body_read = TRUE]

(* links = obj.create_links() *)
CreateLinks ==
    /\ obj # None
    /\ called' = "create_links"
    /\ ret' = List(create_links(obj))
    /\ UNCHANGED <<obj, suspended, stored_links, environ, config, app>>

(* links = await obj.get_links(extra_links), run from the call to the return:
   the request is no POST, or it is one whose body is at hand and is set as
   request.postbody first. *)
GetLinks ==
    /\ obj # None
    /\ obj.request.method = "POST" => BodyAtHand(obj)
    /\ obj' = IF obj.request.method = "POST" THEN WithPostbody(obj) ELSE obj
    /\ called' = "get_links"
    /\ ret' = [links |-> get_links(obj, stored_links),
               extra_links |-> stored_links]
    /\ UNCHANGED <<suspended, stored_links, environ, config, app>>

(* get_links of a POST request whose body was not read: the coroutine stops
   at `await self.request.json()`, nothing of the rest has run.  Nothing
   keeps a second call from reaching its await while the first one waits. *)
GetLinksAwaitsBody ==
    /\ obj # None
    /\ obj.request.method = "POST"
    /\ ~BodyAtHand(obj)
    /\ Len(suspended) < MaxPending
    /\ suspended' = Append(suspended, [coroutine |-> "get_links",
                                       extra_links |-> stored_links])
    /\ UNCHANGED <<obj, called, ret, stored_links, environ, config, app>>

(* The body arrives at the waiting get_links: postbody is set, then
   create_links and the extra links on the object as it is now. *)
GetLinksResumes ==
    /\ NextServed("get_links")
    /\ ~BodyAtHand(obj)
    /\ obj' = WithPostbody(obj)
    /\ called' = "get_links"
    /\ ret' = [links |-> get_links(WithPostbody(obj),
                                   Head(suspended).extra_links),
               extra_links |-> Head(suspended).extra_links]
    /\ suspended' = Tail(suspended)
    /\ UNCHANGED <<stored_links, environ, config, app>>

(* The body went to another coroutine: the await of line 87 raises, postbody
   is not assigned and get_links returns nothing. *)
GetLinksRaises ==
    /\ NextServed("get_links")
    /\ BodyAtHand(obj)
    /\ called' = "get_links"
    /\ ret' = ClientDisconnect
    /\ suspended' = Tail(suspended)
    /\ UNCHANGED <<obj, stored_links, environ, config, app>>

(* link_next reaches `await self.request.json()`: next is not None, the
   method is POST and new_url was computed without an IndexError. *)
ReachesAwait(o) ==
    /\ o.next # None
    /\ o.request.method = "POST"
    /\ Len(UrlPieces(url(o))) >= 2

(* link = await obj.link_next(), run from the call to the return: no await
   is reached, or the body is at hand. *)
AwaitLinkNext ==
    /\ obj # None
    /\ obj.cls = "PagingLinks"
    /\ ReachesAwait(obj) => BodyAtHand(obj)
    /\ called' = "link_next"
    /\ ret' = link_next(obj)
    /\ UNCHANGED <<obj, suspended, stored_links, environ, config, app>>

(* link_next of a POST request whose body was not read: method and new_url
   are computed, then the coroutine stops at the await. *)
LinkNextAwaitsBody ==
    /\ obj # None
    /\ obj.cls = "PagingLinks"
    /\ ReachesAwait(obj)
    /\ ~BodyAtHand(obj)
    /\ Len(suspended) < MaxPending
    /\ suspended' = Append(suspended,
                           [coroutine |-> "link_next",
                            method |-> obj.request.method,
                            new_url |-> resolve(obj, UrlPieces(url(obj))[2])])
    /\ UNCHANGED <<obj, called, ret, stored_links, environ, config, app>>

(* The body arrives at the waiting link_next: the dict is built from the
   method and new_url of before the await, the body, and self.next as it is
   now. *)
LinkNextResumes ==
    /\ NextServed("link_next")
    /\ ~BodyAtHand(obj)
    /\ obj' = [obj EXCEPT !.request.body_read = TRUE]
    /\ called' = "link_next"
    /\ ret' = PostLink(Head(suspended).method, Head(suspended).new_url,
                       obj.request.json, obj.next)
    /\ suspended' = Tail(suspended)
    /\ UNCHANGED <<stored_links, environ, config, app>>

(* The body went to another coroutine: the await of the POST branch raises
   and link_next returns nothing. *)
LinkNextRaises ==
    /\ NextServed("link_next")
    /\ BodyAtHand(obj)
    /\ called' = "link_next"
    /\ ret' = ClientDisconnect
    /\ suspended' = Tail(suspended)
    /\ UNCHANGED <<obj, stored_links, environ, config, app>>

(* The objects get_links is explored on: one or two of each class. *)
GetLinksObjects ==
    BaseObjects
      \cup {o \in CollectionObjects \cup CatalogObjects :
              /\ o.catalog_path \in {<< >>, <<"a">>}
              /\ o.extensions = <<"FilterExtension">>
              /\ "c" \in {o[f][1] : f \in {"collection_id", "catalog_id"}
                                          \cap DOMAIN o}}
      \cup {o \in PagingObjects(PlainRequests) :
              o.next \in {None, Str(<<"n">>)}}

NotUsed == << >>
Idle == [idle |-> TRUE]

InitLinks ==
    /\ obj \in BaseObjects \cup CollectionObjects \cup CatalogObjects
                 \cup PagingObjects(PagingRequests)
    /\ called = "none"
    /\ ret = None
    /\ suspended = << >>
    /\ stored_links = None
    /\ environ = NotUsed
    /\ config = Idle
    /\ app = Idle

NextLinks ==
    \/ CreateLinks
    \/ AwaitLinkNext \/ LinkNextAwaitsBody \/ LinkNextResumes \/ LinkNextRaises

SpecLinks == InitLinks /\ [][NextLinks]_vars

InitGetLinks ==
    /\ obj \in GetLinksObjects
    /\ called = "none"
    /\ ret = None
    /\ suspended = << >>
    /\ stored_links \in ExtraLinks
    /\ environ = NotUsed
    /\ config = Idle
    /\ app = Idle

NextGetLinks ==
    \/ GetLinks \/ GetLinksAwaitsBody \/ GetLinksResumes \/ GetLinksRaises
    \/ CreateLinks
    \/ AwaitLinkNext \/ LinkNextAwaitsBody \/ LinkNextResumes \/ LinkNextRaises

SpecGetLinks == InitGetLinks /\ [][NextGetLinks]_vars

(* Reading a list of links and the query string of a URL.                  *)

IsLink(x) == {"rel", "type", "href"} \subseteq DOMAIN x

(* The call ended with an exception and returned nothing. *)
Threw(x) == "raised" \in DOMAIN x

HasRel(links, rel) ==
    \E i \in 1..Len(links) : IsLink(links[i]) /\ links[i].rel = rel

(* The hrefs of the links of a rel (and of a method, for the rel "search"). *)
Hrefs(links, rel) ==
    {links[i].href : i \in {k \in 1..Len(links) :
                               IsLink(links[k]) /\ links[k].rel = rel}}

SearchHrefs(links, method) ==
    {links[i].href : i \in {k \in 1..Len(links) :
                               /\ IsLink(links[k])
                               /\ links[k].rel = "search"
                               /\ links[k].method = method}}

InList(x, list) == \E i \in 1..Len(list) : list[i] = x

(* The arguments of the query string of u, as written: the text between the
   first "?" and the "#", cut at every "&". *)
RawQuery(u) == After(Before(u, Find(u, "#")), Find(Before(u, Find(u, "#")), "?"))

RawArgs(u) == IF RawQuery(u) = << >> THEN << >> ELSE Split(RawQuery(u), <<"&">>)

ArgName(arg) == unquote_plus(Before(arg, Find(arg, "=")))

ArgValue(arg) == unquote_plus(After(arg, Find(arg, "=")))

(* The values (decoded) the query string of u gives the parameter key, in
   order. *)
RECURSIVE ValuesOf(_, _)
ValuesOf(args, key) ==
    IF args = << >> THEN << >>
    ELSE (IF ArgName(Head(args)) = key THEN <<ArgValue(Head(args))>>
          ELSE << >>) \o ValuesOf(Tail(args), key)

QueryValues(u, key) == ValuesOf(RawArgs(u), key)

QueryNames(u) == {ArgName(RawArgs(u)[i]) : i \in 1..Len(RawArgs(u))}

----------------------------------------------------------------------------
(* C1: get_links returns the generated links followed by exactly the extra
   links whose rel is none of self, item, parent, collection, root, in their
   order, each with its other fields unchanged and its href resolved against
   the base_url of the request.  This is said of every call that returns; a
   call returns nothing only when it is a POST whose body went to another
   waiting coroutine, and then it ends with ClientDisconnect. *)
C1_Extra == IF ret.extra_links = None THEN << >> ELSE ret.extra_links.list

C1_Kept ==
    {k \in 1..Len(C1_Extra) :
        C1_Extra[k].rel \notin {"self", "item", "parent", "collection", "root"}}

C1_GetLinksAppendsResolvedExtras ==
    /\ (called = "get_links" /\ Threw(ret)) =>
          /\ ret = ClientDisconnect
          /\ obj.request.method = "POST"
          /\ BodyAtHand(obj)
    /\ (called = "get_links" /\ ~Threw(ret)) =>
        LET gen == create_links(obj)
            n == Len(gen)
            res == ret.links
        IN  /\ Len(res) = n + Cardinality(C1_Kept)
            /\ SubSeq(res, 1, n) = gen
            /\ \A k \in C1_Kept :
                  LET j == n + Cardinality({m \in C1_Kept : m <= k})
                  IN  /\ DOMAIN res[j] = DOMAIN C1_Extra[k]
                      /\ \A f \in DOMAIN C1_Extra[k] \ {"href"} :
                            res[j][f] = C1_Extra[k][f]
                      /\ res[j].href = urljoin(obj.request.base_url,
                                               C1_Extra[k].href)
            /\ \A j \in (n + 1)..Len(res) :
                  res[j].rel \notin {"self", "item", "parent", "collection",
                                     "root"}

(* A call with two extra links, a license link that is kept and a self link
   that is dropped, the relative href of the kept one resolved to another
   text. *)
C1_Witness ==
    /\ called = "get_links"
    /\ obj.cls = "CollectionLinks"
    /\ obj.request.base_url = <<"http", ":", "/", "/", "h", "/", "api", "/">>
    /\ ret.extra_links # None
    /\ Len(C1_Extra) = 2
    /\ C1_Extra[1].rel = "license"
    /\ C1_Extra[2].rel = "self"
    /\ Len(ret.links) = Len(create_links(obj)) + 1
    /\ Last(ret.links).rel = "license"
    /\ Last(ret.links).href = <<"http", ":", "/", "/", "h", "/", "lic">>

(* C2: create_links returns a list that holds, once each, the result of
   every link_ method, None results left out, and every element of it is a
   link with rel, type and href. *)
MethodResult(o, name) ==
    IF name = "link_next" THEN link_next(o) ELSE CallLink(o, name)

C2_CreateLinksHoldsEveryLink ==
    called = "create_links" =>
        LET names == LinkMethods(obj)
            present == {i \in 1..Len(names) :
                           MethodResult(obj, names[i]) # None}
        IN  /\ Len(ret.list) = Cardinality(present)
            /\ \A i \in present :
                  Cardinality({k \in 1..Len(ret.list) :
                                  ret.list[k] = MethodResult(obj, names[i])}) = 1
            /\ \A k \in 1..Len(ret.list) : IsLink(ret.list[k])

(* C3: the links created for a collection or a catalog hold a queryables
   link iff "FilterExtension" is in extensions, an aggregate and an
   aggregations link iff "AggregationExtension" is; self, parent and
   items (collection) or collections (catalog) are always there. *)
C3_ExtensionLinks ==
    (called = "create_links" /\ obj.cls \in {"CollectionLinks", "CatalogLinks"})
    =>  /\ HasRel(ret.list, "queryables") <=> InList("FilterExtension", obj.extensions)
        /\ HasRel(ret.list, "aggregate")
              <=> InList("AggregationExtension", obj.extensions)
        /\ HasRel(ret.list, "aggregations")
              <=> InList("AggregationExtension", obj.extensions)
        /\ HasRel(ret.list, "self")
        /\ HasRel(ret.list, "parent")
        /\ obj.cls = "CollectionLinks" => HasRel(ret.list, "items")
        /\ obj.cls = "CatalogLinks" => HasRel(ret.list, "collections")

C3_Witness ==
    /\ called = "create_links"
    /\ obj.cls = "CollectionLinks"
    /\ obj.extensions = <<"AggregationExtension", "FilterExtension">>
    /\ HasRel(ret.list, "queryables")
    /\ HasRel(ret.list, "aggregate")
    /\ HasRel(ret.list, "aggregations")
    /\ Len(ret.list) = 7

(* C4: for a catalog, with any catalog_path and catalog_id, the self href is
   base_url + "catalogs/{catalog_id}" (catalog_path empty) or base_url +
   "catalogs/{catalog_path}/catalogs/{catalog_id}", the parent href is
   base_url or base_url + "catalogs/{catalog_path}", and the collections,
   data, catalogs and the two search links are the self href followed by
   /collections, /collections, /catalogs and /search. *)
C4_SelfHref ==
    obj.request.base_url
      \o (IF obj.catalog_path = << >>
          THEN <<"catalogs", "/">> \o obj.catalog_id
          ELSE <<"catalogs", "/">> \o obj.catalog_path
                 \o <<"/", "catalogs", "/">> \o obj.catalog_id)

C4_CatalogHrefs ==
    (called = "create_links" /\ obj.cls = "CatalogLinks")
    =>  /\ Hrefs(ret.list, "self") = {C4_SelfHref}
        /\ Hrefs(ret.list, "parent") =
              {IF obj.catalog_path = << >> THEN obj.request.base_url
               ELSE obj.request.base_url \o <<"catalogs", "/">>
                      \o obj.catalog_path}
        /\ Hrefs(ret.list, "collections") = {C4_SelfHref \o <<"/", "collections">>}
        /\ Hrefs(ret.list, "data") = {C4_SelfHref \o <<"/", "collections">>}
        /\ Hrefs(ret.list, "catalogs") = {C4_SelfHref \o <<"/", "catalogs">>}
        /\ SearchHrefs(ret.list, "GET") = {C4_SelfHref \o <<"/", "search">>}
        /\ SearchHrefs(ret.list, "POST") = {C4_SelfHref \o <<"/", "search">>}

(* C5: link_next gives None when next is None; for a GET or POST request
   with a next it gives a link with rel next and the method of the request
   whose token is next: the one value of the token parameter of href for
   GET, body.token on top of the other, unchanged fields of the request body
   for POST.  This is said of every call that returns; a call returns
   nothing only when it is a POST with a next whose body went to another
   waiting coroutine, and then it ends with ClientDisconnect. *)
C5_NextLinkCarriesToken ==
    /\ (called = "link_next" /\ Threw(ret)) =>
          /\ ret = ClientDisconnect
          /\ obj.request.method = "POST"
          /\ obj.next # None
          /\ BodyAtHand(obj)
    /\ (called = "link_next" /\ ~Threw(ret)) =>
        /\ obj.next = None => ret = None
        /\ (obj.next # None /\ obj.request.method \in {"GET", "POST"}) =>
              /\ IsLink(ret)
              /\ ret.rel = "next"
              /\ ret.method = obj.request.method
        /\ (obj.next # None /\ obj.request.method = "GET") =>
              QueryValues(ret.href, <<"token">>) = <<obj.next.str>>
        /\ (obj.next # None /\ obj.request.method = "POST") =>
              /\ DictKeys(ret.body) = DictKeys(obj.request.json) \cup {"token"}
              /\ \A i \in 1..Len(ret.body) :
                    /\ ret.body[i].name = "token"
                          => ret.body[i].value = obj.next.str
                    /\ ret.body[i].name # "token"
                          => InList(ret.body[i], obj.request.json)
              /\ Cardinality({i \in 1..Len(ret.body) :
                                 ret.body[i].name = "token"}) = 1

(* A GET whose url already carries token=old, next being "n t". *)
C5_Witness ==
    /\ called = "link_next"
    /\ obj.request.method = "GET"
    /\ QueryValues(obj.request.url, <<"token">>) = << <<"old">> >>
    /\ obj.next = Str(<<"n", " ", "t">>)
    /\ ret.href = <<"http", ":", "/", "/", "h", "/", "search", "?",
                    "token", "=", "n", "+", "t">>

(* C6: the href of the next link has the scheme, host and path of the
   request url and every query parameter of it but token, with its values. *)
C6_NextHrefKeepsUrl ==
    (called = "link_next" /\ IsLink(ret)) =>
        /\ urlsplit(ret.href, << >>).scheme
              = urlsplit(obj.request.url, << >>).scheme
        /\ urlsplit(ret.href, << >>).netloc
              = urlsplit(obj.request.url, << >>).netloc
        /\ urlsplit(ret.href, << >>).path
              = urlsplit(obj.request.url, << >>).path
        /\ \A name \in QueryNames(obj.request.url) \ {<<"token">>} :
              QueryValues(ret.href, name) = QueryValues(obj.request.url, name)

----------------------------------------------------------------------------
(* elasticsearch/config.py.  os.environ is a function from the names of the
   variables that are set to their values; a value is a TLA+ string.       *)

(* os.getenv(name, default) *)
getenv(env, name, default) == IF name \in DOMAIN env THEN env[name] ELSE default

(* `if os.getenv(name)`: set, and not to "". *)
Truthy(env, name) == name \in DOMAIN env /\ env[name] # ""

(* f"{os.getenv(name)}": an unset variable formats as None. *)
Format(env, name) == getenv(env, name, "None")

(* str.lower on the values of the model. *)
Lower(t) ==
    CASE t = "True"  -> "true"
      [] t = "TRUE"  -> "true"
      [] t = "False" -> "false"
      [] t = "FALSE" -> "false"
      [] OTHER       -> t

(* int(text): ValueError unless text is a decimal literal. *)
IsIntText(t) == t \in {"30", "60"}

IntOf(t) == CASE t = "30" -> 30 [] t = "60" -> 60

Raise(exception) == [raised |-> exception]

Raised(c) == "raised" \in DOMAIN c

certifi_where == "site-packages/certifi/cacert.pem"

(* use_ssl comparing the value as it stands, without lower(). *)
use_ssl_as_written(env) == getenv(env, "ES_USE_SSL", "true") = "true"

use_ssl(env) == Lower(getenv(env, "ES_USE_SSL", "true")) = "true"

es_scheme(env) == IF use_ssl(env) THEN "https" ELSE "http"

(* hosts and the first value of config. *)
hosts(env) ==
    << <<es_scheme(env), ":", "/", "/", Format(env, "ES_HOST"), ":",
         Format(env, "ES_PORT")>> >>

InitialConfig(env) ==
    [hosts |-> hosts(env),
     headers |-> ("accept" :>
                    "application/vnd.elasticsearch+json; compatible-with=7")]

(* isinstance(value, dict): a mapping, here one with text keys. *)
isinstance_dict(value) == DOMAIN value \subseteq STRING

(* The API key replacing the headers instead of joining them. *)
HandleApiKey_replacing(env, c) ==
    IF Truthy(env, "ES_API_KEY")
    THEN [c EXCEPT !.headers = ("x-api-key" :> env["ES_API_KEY"])]
    ELSE c

(* "Handle API key": in the else branch `headers` is never bound, and the
   assignment after it raises. *)
HandleApiKey(env, c) ==
    IF Truthy(env, "ES_API_KEY")
    THEN IF isinstance_dict(c.headers)
         THEN [c EXCEPT !.headers = ("x-api-key" :> env["ES_API_KEY"]) @@ @]
         ELSE Raise("UnboundLocalError")
    ELSE c

(* "Include SSL settings if using https" *)
SslSettings(env, c) ==
    c @@ [ssl_version |-> "TLSv1_3",
          verify_certs |->
              Lower(getenv(env, "ES_VERIFY_CERTS", "true")) # "false"]

(* ca_certs set whether certificates are verified or not. *)
CaCerts_unconditional(env, c) ==
    c @@ [ca_certs |-> getenv(env, "CURL_CA_BUNDLE", certifi_where)]

(* "Include CA Certificates if verifying certs" *)
CaCerts(env, c) ==
    IF c.verify_certs
    THEN c @@ [ca_certs |-> getenv(env, "CURL_CA_BUNDLE", certifi_where)]
    ELSE c

(* "Handle authentication" *)
HttpAuth(env, c) ==
    IF Truthy(env, "ES_USER") /\ Truthy(env, "ES_PASS")
    THEN c @@ [http_auth |-> <<env["ES_USER"], env["ES_PASS"]>>]
    ELSE c

Timeout(env, c) ==
    IF IsIntText(getenv(env, "ES_TIMEOUT", "60"))
    THEN c @@ [timeout |-> IntOf(getenv(env, "ES_TIMEOUT", "60"))]
    ELSE Raise("ValueError")

AfterApiKey(env, c) ==
    IF Raised(c) \/ ~use_ssl(env) THEN c
    ELSE Timeout(env, HttpAuth(env, CaCerts(env, SslSettings(env, c))))

_es_config(env) == AfterApiKey(env, HandleApiKey(env, InitialConfig(env)))

(* The environments _es_config is explored in. *)
ConfigValues ==
    [ES_USE_SSL      |-> {"true", "True", "false", "0"},
     ES_HOST         |-> {"es"},
     ES_PORT         |-> {"9200"},
     ES_API_KEY      |-> {"", "k"},
     ES_VERIFY_CERTS |-> {"false", "False", "true", "no"},
     CURL_CA_BUNDLE  |-> {"", "/ca.pem"},
     ES_USER         |-> {"", "u"},
     ES_PASS         |-> {"p"},
     ES_TIMEOUT      |-> {"30", "abc"}]

(* Every environment that sets some of the names of values, each to one of
   its values. *)
RECURSIVE EnvironmentsOver(_, _)
EnvironmentsOver(values, names) ==
    IF names = {} THEN {<< >>}
    ELSE LET n == CHOOSE x \in names : TRUE
         IN  EnvironmentsOver(values, names \ {n})
               \cup {(n :> v) @@ e :
                       e \in EnvironmentsOver(values, names \ {n}),
                       v \in values[n]}

Environments(values) == EnvironmentsOver(values, DOMAIN values)

(* ElasticsearchSettings.create_client: Elasticsearch with the options of
   _es_config. *)
CreateClient ==
    /\ config # Idle
    /\ config' = [client |-> "Elasticsearch", options |-> _es_config(environ)]
    /\ UNCHANGED <<obj, called, ret, suspended, stored_links, environ, app>>

(* AsyncElasticsearchSettings.create_client *)
CreateAsyncClient ==
    /\ config # Idle
    /\ config' = [client |-> "AsyncElasticsearch",
                  options |-> _es_config(environ)]
    /\ UNCHANGED <<obj, called, ret, suspended, stored_links, environ, app>>

NoClient == [client |-> "none"]

InitConfig ==
    /\ environ \in Environments(ConfigValues)
    /\ config = NoClient
    /\ obj = None
    /\ called = "none"
    /\ ret = None
    /\ suspended = << >>
    /\ stored_links = None
    /\ app = Idle

NextConfig == CreateClient \/ CreateAsyncClient

SpecConfig == InitConfig /\ [][NextConfig]_vars

----------------------------------------------------------------------------
(* Whether the environment asks for SSL: ES_USE_SSL unset, or "true" in any
   case of its letters. *)
SslAsked == "ES_USE_SSL" \notin DOMAIN environ
               \/ environ["ES_USE_SSL"] \in {"true", "True", "TRUE"}

Returned == config.client # "none" /\ ~Raised(config.options)

(* C7: _es_config returns one host URL, https when ES_USE_SSL lower-cased is
   "true" (or unset) and http otherwise; ssl_version, verify_certs and
   ca_certs are among the options only with https, and without SSL the
   options are exactly hosts and headers. *)
C7_SchemeAndSslOptions ==
    /\ (config.client # "none" /\ ~SslAsked) => ~Raised(config.options)
    /\ Returned =>
        /\ Len(config.options.hosts) = 1
        /\ config.options.hosts[1][1] = IF SslAsked THEN "https" ELSE "http"
        /\ SubSeq(config.options.hosts[1], 2, 4) = <<":", "/", "/">>
        /\ ~SslAsked => DOMAIN config.options = {"hosts", "headers"}
        /\ {"ssl_version", "verify_certs", "ca_certs"}
              \cap DOMAIN config.options # {} => SslAsked

C7_Witness ==
    /\ Returned
    /\ "ES_USE_SSL" \in DOMAIN environ
    /\ environ["ES_USE_SSL"] = "True"
    /\ config.options.hosts = << <<"https", ":", "/", "/", "es", ":", "9200">> >>
    /\ {"ssl_version", "verify_certs", "ca_certs"} \subseteq DOMAIN config.options

(* C8: the headers returned always hold the accept compatibility header, and
   hold x-api-key iff ES_API_KEY is set to a non-empty value, then with that
   value; the API-key path raises nothing (the one failure of _es_config is
   the ValueError of int()). *)
C8_Headers ==
    config.client # "none" =>
        /\ Raised(config.options) => config.options.raised = "ValueError"
        /\ ~Raised(config.options) =>
            /\ "accept" \in DOMAIN config.options.headers
            /\ config.options.headers["accept"]
                  = "application/vnd.elasticsearch+json; compatible-with=7"
            /\ "x-api-key" \in DOMAIN config.options.headers
                  <=> ("ES_API_KEY" \in DOMAIN environ
                         /\ environ["ES_API_KEY"] # "")
            /\ "x-api-key" \in DOMAIN config.options.headers
                  => config.options.headers["x-api-key"]
                        = environ["ES_API_KEY"]

C8_Witness ==
    /\ Returned
    /\ "ES_API_KEY" \in DOMAIN environ
    /\ environ["ES_API_KEY"] = "k"
    /\ DOMAIN config.options.headers = {"accept", "x-api-key"}
    /\ config.options.headers["x-api-key"] = "k"

(* C9: with SSL, verify_certs is false iff ES_VERIFY_CERTS lower-cased is
   "false"; ca_certs is there iff verify_certs is true, and is
   CURL_CA_BUNDLE when that is set, the certifi bundle otherwise. *)
C9_VerifyCertsAndCaCerts ==
    (Returned /\ SslAsked) =>
        /\ "verify_certs" \in DOMAIN config.options
        /\ config.options.verify_certs = FALSE
              <=> ("ES_VERIFY_CERTS" \in DOMAIN environ
                     /\ environ["ES_VERIFY_CERTS"] \in {"false", "False", "FALSE"})
        /\ "ca_certs" \in DOMAIN config.options
              <=> config.options.verify_certs = TRUE
        /\ "ca_certs" \in DOMAIN config.options
              => config.options.ca_certs
                    = IF "CURL_CA_BUNDLE" \in DOMAIN environ
                      THEN environ["CURL_CA_BUNDLE"]
                      ELSE "site-packages/certifi/cacert.pem"

C9_Witness ==
    /\ Returned
    /\ SslAsked
    /\ "ES_VERIFY_CERTS" \in DOMAIN environ
    /\ environ["ES_VERIFY_CERTS"] = "False"
    /\ "CURL_CA_BUNDLE" \in DOMAIN environ
    /\ config.options.verify_certs = FALSE
    /\ "ca_certs" \notin DOMAIN config.options

----------------------------------------------------------------------------
(* elasticsearch/app.py.  app is the state of the module: pc is where it
   stands ("init" before the import, "imported" after it, the name of a
   creation step while start-up is at it, "started" or "failed" at the end),
   awaiting says the step at pc was called and has not returned, and events
   lists the calls of the creation steps and how each one ended.           *)

(* search_extensions before the test of STAC_FASTAPI_ENABLE_TRANSACTIONS, by
   type name. *)
base_search_extensions ==
    <<"FieldsExtension", "QueryExtension", "SortExtension",
      "TokenPaginationExtension", "FilterExtension", "FreeTextExtension">>

(* search_extensions at the end of the import. *)
search_extensions(env) ==
    IF getenv(env, "STAC_FASTAPI_ENABLE_TRANSACTIONS", "true") = "true"
    THEN Append(base_search_extensions, "TransactionExtension")
    ELSE Append(base_search_extensions, "CollectionSearchPostExtension")

(* extensions = [aggregation_extension] + search_extensions *)
extensions(env) == <<"AggregationExtension">> \o search_extensions(env)

(* create_handler(app): Mangum(app), or None when mangum is not installed. *)
create_handler(mangum_installed) ==
    IF mangum_installed THEN "Mangum" ELSE "None"

(* _startup_event creating the collection index before the item index. *)
startup_steps_swapped ==
    <<"create_index_templates", "create_collection_index",
      "create_item_index", "create_catalog_index">>

(* The awaits of _startup_event, in the order of the statements. *)
startup_steps ==
    <<"create_index_templates", "create_item_index",
      "create_collection_index", "create_catalog_index">>

StepIndex(step) == CHOOSE i \in 1..Len(startup_steps) : startup_steps[i] = step

(* The module body: the extensions registered with StacApi, root_path, the
   rate limit and the Lambda handler. *)
ImportApp ==
    /\ app # Idle
    /\ app.pc = "init"
    /\ \E mangum_installed \in BOOLEAN :
          app' = [app EXCEPT
                    !.pc = "imported",
                    !.search_extensions = search_extensions(environ),
                    !.extensions = extensions(environ),
                    !.root_path = getenv(environ, "STAC_FASTAPI_ROOT_PATH", ""),
                    !.rate_limit = getenv(environ, "STAC_FASTAPI_RATE_LIMIT",
                                          "None"),
                    !.handler = create_handler(mangum_installed)]
    /\ UNCHANGED <<obj, called, ret, suspended, stored_links, environ, config>>

(* _startup_event is entered: the test of the environment. *)
StartupEvent ==
    /\ app # Idle
    /\ app.pc = "imported"
    /\ app' = [app EXCEPT
                 !.pc = IF getenv(environ, "STAC_FASTAPI_ENABLE_TRANSACTIONS",
                                  "false") = "true"
                        THEN startup_steps[1] ELSE "started"]
    /\ UNCHANGED <<obj, called, ret, suspended, stored_links, environ, config>>

AtStep == app # Idle /\ \E i \in 1..Len(startup_steps) : app.pc = startup_steps[i]

(* await create_...(): the call. *)
CallStep ==
    /\ AtStep
    /\ ~app.awaiting
    /\ app' = [app EXCEPT !.awaiting = TRUE,
                          !.events = Append(@, <<"call", app.pc>>)]
    /\ UNCHANGED <<obj, called, ret, suspended, stored_links, environ, config>>

(* The awaited step returns: on to the next statement. *)
StepReturns ==
    /\ AtStep
    /\ app.awaiting
    /\ app' = [app EXCEPT
                 !.awaiting = FALSE,
                 !.events = Append(@, <<"return", app.pc>>),
                 !.pc = IF StepIndex(app.pc) = Len(startup_steps)
                        THEN "started"
                        ELSE startup_steps[StepIndex(app.pc) + 1]]
    /\ UNCHANGED <<obj, called, ret, suspended, stored_links, environ, config>>

(* The awaited step raises: _startup_event ends there. *)
StepRaises ==
    /\ AtStep
    /\ app.awaiting
    /\ app' = [app EXCEPT !.awaiting = FALSE,
                          !.events = Append(@, <<"raise", app.pc>>),
                          !.pc = "failed"]
    /\ UNCHANGED <<obj, called, ret, suspended, stored_links, environ, config>>

AppValues ==
    [STAC_FASTAPI_ENABLE_TRANSACTIONS |-> {"true", "false", "True", ""},
     STAC_FASTAPI_ROOT_PATH           |-> {"/api"},
     STAC_FASTAPI_RATE_LIMIT          |-> {"10/minute"}]

InitApp ==
    /\ environ \in Environments(AppValues)
    /\ app = [pc |-> "init", awaiting |-> FALSE, events |-> << >>,
              search_extensions |-> << >>, extensions |-> << >>,
              root_path |-> "", rate_limit |-> "None", handler |-> "None"]
    /\ obj = None
    /\ called = "none"
    /\ ret = None
    /\ suspended = << >>
    /\ stored_links = None
    /\ config = Idle

NextApp == ImportApp \/ StartupEvent \/ CallStep \/ StepReturns \/ StepRaises

SpecApp == InitApp /\ [][NextApp]_vars

(* C10: start-up creates indices only when STAC_FASTAPI_ENABLE_TRANSACTIONS
   is "true"; the steps then run in the order index templates, item index,
   collection index, catalog index, each called only after the one before
   it has returned. *)
C10_Order ==
    <<<<"call", "create_index_templates">>,
      <<"return", "create_index_templates">>,
      <<"call", "create_item_index">>,
      <<"return", "create_item_index">>,
      <<"call", "create_collection_index">>,
      <<"return", "create_collection_index">>,
      <<"call", "create_catalog_index">>,
      <<"return", "create_catalog_index">>>>

C10_StartupCreatesInOrder ==
    app # Idle =>
        /\ ~("STAC_FASTAPI_ENABLE_TRANSACTIONS" \in DOMAIN environ
               /\ environ["STAC_FASTAPI_ENABLE_TRANSACTIONS"] = "true")
              => app.events = << >>
        /\ Len(app.events) <= Len(C10_Order)
        /\ \A i \in 1..Len(app.events) :
              \/ app.events[i] = C10_Order[i]
              \/ /\ i = Len(app.events)
                 /\ C10_Order[i][1] = "return"
                 /\ app.events[i] = <<"raise", C10_Order[i][2]>>
        /\ app.pc = "started"
              => (app.events = << >> \/ app.events = C10_Order)

C10_Witness ==
    /\ app # Idle
    /\ app.pc = "started"
    /\ app.events = C10_Order

(* C11: for every value of STAC_FASTAPI_ENABLE_TRANSACTIONS, unset included,
   the environment being the same at the import and at start-up, the
   TransactionExtension is registered iff start-up creates the index
   templates and the item, collection and catalog indices; otherwise the
   CollectionSearchPostExtension is registered and no index is created.
   Read once start-up has run to its end. *)
Registered(name) == InList(name, app.extensions)

C11_TransactionsIffIndices ==
    (app # Idle /\ app.pc = "started") =>
        /\ Registered("TransactionExtension") <=> app.events = C10_Order
        /\ ~Registered("TransactionExtension") =>
              /\ Registered("CollectionSearchPostExtension")
              /\ app.events = << >>

----------------------------------------------------------------------------
(* The three parts together: a behaviour is one of a links object, of the
   client configuration or of the application. *)
Init == InitLinks \/ InitGetLinks \/ InitConfig \/ InitApp

Next ==
    \/ CreateLinks
    \/ GetLinks \/ GetLinksAwaitsBody \/ GetLinksResumes \/ GetLinksRaises
    \/ AwaitLinkNext \/ LinkNextAwaitsBody \/ LinkNextResumes \/ LinkNextRaises
    \/ CreateClient \/ CreateAsyncClient
    \/ ImportApp \/ StartupEvent \/ CallStep \/ StepReturns \/ StepRaises

Spec == Init /\ [][Next]_vars
====
